---- MODULE Spec2Model ----
(***************************************************************************)
(* gb9k: the prompt-file protocol and the streaming conversation engine.   *)
(*                                                                         *)
(* Text is modelled as a sequence of tokens.  A token is a run of          *)
(* characters that the program's patterns treat as a unit: a section       *)
(* header without its line break ("### User"), the line break itself, the  *)
(* horizontal rule, the placeholder comment, a model id, a path, a word.   *)
(* The regular expressions of run.js are computed on token sequences the   *)
(* way the regex engine computes them on characters (leftmost match, lazy  *)
(* capture up to the first position where the lookahead succeeds).         *)
(*                                                                         *)
(* Prices are counted in millionths of a dollar per token and times in     *)
(* hours, so that costs and cache ages are integers.                       *)
(***************************************************************************)
EXTENDS Integers, Sequences, FiniteSets, TLC

(* ---------------------------------------------------------------- bounds *)
MaxChunks == 2      \* network chunks delivered over all exchanges of a behaviour
MaxLines == 2       \* event lines in one network chunk
MaxRuns == 2        \* invocations of `gb9k run` on the same file

(* ---------------------------------------------------------------- tokens *)
NL == "\n"
HdrModel == "### Model"
HdrContext == "### Context"
HdrUser == "### User"
HdrLLM == "### LLM"
Rule == "---"
ListMarker == "- "
SP == " "
Instructions == "<!-- Enter your prompt at the bottom -->"
Placeholder == "<!-- Enter your next prompt here, then execute gb9k run -->"

VALID_MODELS ==
  << "anthropic/claude-3.5-sonnet", "meta-llama/llama-3.1-405b-instruct",
     "openai/gpt-4o", "mistral/mixtral-8x22b-instruct", "google/gemini-pro-1.5",
     "meta-llama/llama-4-maverick", "meta-llama/llama-3-70b-instruct",
     "mistral/mistral-small-3.1", "openrouter/optimus-alpha", "cloudflare/gemma-7b",
     "cloudflare/llama-3.3-70b", "cloudflare/llama-3.1-70b",
     "cloudflare/deepseek-r1-distill-qwen-32b", "openrouter/auto" >>
DEFAULT_MODEL == "anthropic/claude-3.5-sonnet"

Range(s) == {s[i] : i \in 1..Len(s)}

(* a token that begins with the characters "###" / "---" *)
StartsWithHashes(t) == t \in {HdrModel, HdrContext, HdrUser, HdrLLM}
StartsWithDashes(t) == t = Rule

(* String.prototype.trim: whitespace tokens are stripped at both ends *)
IsSpace(t) == t \in {NL, SP}
FirstInk(s) == IF \E i \in 1..Len(s) : ~IsSpace(s[i])
               THEN CHOOSE i \in 1..Len(s) : ~IsSpace(s[i]) /\ \A j \in 1..(i-1) : IsSpace(s[j])
               ELSE 0
LastInk(s) == IF \E i \in 1..Len(s) : ~IsSpace(s[i])
              THEN CHOOSE i \in 1..Len(s) : ~IsSpace(s[i]) /\ \A j \in (i+1)..Len(s) : IsSpace(s[j])
              ELSE 0
trim(s) == IF FirstInk(s) = 0 THEN << >> ELSE SubSeq(s, FirstInk(s), LastInk(s))

(* smallest element of a non-empty set of integers *)
Min(S) == CHOOSE x \in S : \A y \in S : x <= y

(* /### <Name>\n([\s\S]*?)(?=\n###|\n---|$)/ : the capture group of the     *)
(* leftmost match, or "nomatch".                                           *)
SectionStarts(content, hdr) ==
  {i \in 1..(Len(content) - 1) : content[i] = hdr /\ content[i+1] = NL}
SectionStops(content, from) ==
  {j \in from..(Len(content) - 1) :
      content[j] = NL /\ (StartsWithHashes(content[j+1]) \/ StartsWithDashes(content[j+1]))}
    \cup {Len(content) + 1}
SectionMatch(content, hdr) ==
  IF SectionStarts(content, hdr) = {} THEN [matched |-> FALSE, text |-> << >>]
  ELSE LET i == Min(SectionStarts(content, hdr))
           j == Min(SectionStops(content, i + 2))
       IN [matched |-> TRUE, text |-> SubSeq(content, i + 2, j - 1)]

(* content.split(NL) on a token sequence *)
RECURSIVE splitLines(_)
splitLines(s) ==
  IF \A i \in 1..Len(s) : s[i] # NL THEN << s >>
  ELSE LET k == Min({i \in 1..Len(s) : s[i] = NL})
       IN << SubSeq(s, 1, k - 1) >> \o splitLines(SubSeq(s, k + 1, Len(s)))

(* line.trim().replace(/^- /, empty) *)
stripMarker(line) ==
  LET t == trim(line)
  IN IF Len(t) > 0 /\ t[1] = ListMarker THEN SubSeq(t, 2, Len(t)) ELSE t

\* variant: the pattern without the line break
ConversationStarts_anyRule(content) ==
  {i \in 1..(Len(content) - 1) : content[i] = Rule}

\* the pattern  ---\n  followed by a greedy capture to the end of input:
\* everything after the leftmost rule + line break
ConversationStarts(content) ==
  {i \in 1..(Len(content) - 1) : content[i] = Rule /\ content[i+1] = NL}
ConversationMatch(content) ==
  IF ConversationStarts(content) = {} THEN [matched |-> FALSE, text |-> << >>]
  ELSE [matched |-> TRUE,
        text |-> SubSeq(content, Min(ConversationStarts(content)) + 2, Len(content))]

(* /(### (User|LLM)\n([\s\S]*?))(?=### (User|LLM)\n|$)/g with the exec loop *)
TurnStarts(text) ==
  {i \in 1..(Len(text) - 1) : text[i] \in {HdrUser, HdrLLM} /\ text[i+1] = NL}
\* variant: no test of the trimmed content
RECURSIVE messageLoop_keepsEmpty(_, _)
messageLoop_keepsEmpty(text, from) ==
  LET later == {i \in TurnStarts(text) : i >= from}
  IN IF later = {} THEN << >>
     ELSE LET i == Min(later)
              stop == Min({j \in TurnStarts(text) : j > i} \cup {Len(text) + 1})
              role == IF text[i] = HdrUser THEN "user" ELSE "assistant"
              body == trim(SubSeq(text, i + 2, stop - 1))
          IN << [role |-> role, content |-> body] >> \o messageLoop_keepsEmpty(text, stop)

RECURSIVE messageLoop(_, _)
messageLoop(text, from) ==
  LET later == {i \in TurnStarts(text) : i >= from}
  IN IF later = {} THEN << >>
     ELSE LET i == Min(later)
              stop == Min({j \in TurnStarts(text) : j > i} \cup {Len(text) + 1})
              role == IF text[i] = HdrUser THEN "user" ELSE "assistant"
              body == trim(SubSeq(text, i + 2, stop - 1))
          IN (IF body # << >> THEN << [role |-> role, content |-> body] >> ELSE << >>)
               \o messageLoop(text, stop)

\* variant: no VALID_MODELS.includes test
resolveModel_noFallback(modelMatch) ==
  LET named == IF modelMatch.matched THEN trim(modelMatch.text) ELSE << DEFAULT_MODEL >>
  IN [model |-> IF Len(named) = 1 THEN named[1] ELSE "", warned |-> FALSE]

\* modelMatch[1].trim() or the default, then the VALID_MODELS.includes test
resolveModel(modelMatch) ==
  LET named == IF modelMatch.matched THEN trim(modelMatch.text) ELSE << DEFAULT_MODEL >>
  IN IF Len(named) = 1 /\ named[1] \in Range(VALID_MODELS)
     THEN [model |-> named[1], warned |-> FALSE]
     ELSE [model |-> DEFAULT_MODEL, warned |-> TRUE]

parsePromptFile(content) ==
  LET modelMatch == SectionMatch(content, HdrModel)
      model == resolveModel(modelMatch).model
      warned == resolveModel(modelMatch).warned
      contextMatch == SectionMatch(content, HdrContext)
      contextFiles == IF contextMatch.matched
                      THEN SelectSeq([k \in 1..Len(splitLines(contextMatch.text)) |->
                                        stripMarker(splitLines(contextMatch.text)[k])],
                                     LAMBDA l : l # << >>)
                      ELSE << >>
      conversationMatch == ConversationMatch(content)
  IN IF ~conversationMatch.matched
     THEN [threw |-> TRUE, model |-> model, warned |-> warned,
           contextFiles |-> contextFiles, messages |-> << >>]
     ELSE [threw |-> FALSE, model |-> model, warned |-> warned,
           contextFiles |-> contextFiles,
           messages |-> messageLoop(conversationMatch.text, 1)]

(* --------------------------------------------------------- file protocol *)
\* fs.appendFile of the assistant marker unless the text includes "### LLM"
initializePromptFile(originalContent) ==
  IF HdrLLM \in Range(originalContent)
  THEN originalContent
  ELSE originalContent \o << NL, NL, HdrLLM, NL >>

UserTurnMarker == << NL, NL, HdrUser, NL, Placeholder >>

\* variant: fs.writeFile in place of fs.appendFile
appendToPromptFile_overwrite(promptFile, content, isFinal) ==
  IF isFinal THEN content \o UserTurnMarker
  ELSE content

appendToPromptFile(promptFile, content, isFinal) ==
  IF isFinal THEN (promptFile \o content) \o UserTurnMarker
  ELSE promptFile \o content

(* ------------------------------------------------------ context assembly *)
FileKinds == {"file", "unreadable", "missing", "otherext"}

\* the kind of file system entry a context reference resolves to
Resolve(fs, ref) ==
  IF Len(ref) = 1 /\ ref[1] \in DOMAIN fs THEN fs[ref[1]] ELSE "missing"

\* getAllCodeFiles with specificPaths: fs.stat of every path, no handler
RECURSIVE getAllCodeFiles(_, _)
getAllCodeFiles(fs, specificPaths) ==
  IF specificPaths = << >> THEN [threw |-> FALSE, files |-> << >>]
  ELSE LET sp == Head(specificPaths)
           rest == getAllCodeFiles(fs, Tail(specificPaths))
       IN IF Resolve(fs, sp) = "missing" THEN [threw |-> TRUE, files |-> << >>]
          ELSE IF rest.threw THEN rest
          ELSE IF Resolve(fs, sp) \in {"file", "unreadable"}
               THEN [threw |-> FALSE, files |-> << sp >> \o rest.files]
               ELSE rest

\* the result lists the references whose delimiter line and content are in
\* the returned string, the warnings are those written by console.warn
getFileContents(fs, refs) ==
  IF refs = << >> THEN [threw |-> FALSE, included |-> << >>, warnings |-> << >>]
  ELSE LET found == getAllCodeFiles(fs, refs)
       IN IF found.threw THEN [threw |-> TRUE, included |-> << >>, warnings |-> << >>]
          ELSE IF found.files = << >>
               THEN [threw |-> FALSE, included |-> << >>, warnings |-> << "no valid code files" >>]
               ELSE [threw |-> FALSE,
                     included |-> SelectSeq(found.files, LAMBDA f : Resolve(fs, f) = "file"),
                     warnings |-> SelectSeq(found.files, LAMBDA f : Resolve(fs, f) = "unreadable")]

(* ---------------------------------------------------------- stream lines *)
\* the i-th content fragment the server sends in an exchange carries the
\* token c<i>: fragments are told apart by their place in the stream
Fragment(i) == "c" \o ToString(i)

LineKinds == {"content", "done", "malformed", "nocontent", "other"}

\* payloads that carry a usage object and no content; what the object holds
UsageKinds == {"usageA", "usageZero"}

UsageOf(kind) ==
  CASE kind = "usageA" -> [prompt_tokens |-> 100, completion_tokens |-> 50]
    [] kind = "usageZero" -> [prompt_tokens |-> 0, completion_tokens |-> 0]

\* v || 0  on a number
OrZero(v) == IF v = 0 THEN 0 ELSE v

\* the chunks a response body can deliver: 1..MaxLines non-blank lines,
\* given by the kind of each line
Chunks == UNION {[1..n -> LineKinds] : n \in 1..MaxLines}

\* an event line that a chunk boundary cuts in two: "contentHead" is the
\* part that ends a chunk (the data prefix and the beginning of the JSON
\* text), "contentTail" the rest, which begins the next chunk
CutKinds == {"contentHead", "contentTail"}

\* the chunks of a response body cut at arbitrary bytes
CutChunks ==
  {c \in UNION {[1..n -> {"content", "done"} \cup CutKinds] : n \in 1..MaxLines} :
     /\ \A k \in 1..Len(c) : c[k] = "contentHead" => k = Len(c)
     /\ \A k \in 1..Len(c) : c[k] = "contentTail" => k = 1}

\* the chunks of a response body whose payloads may report usage
UsageChunks == UNION {[1..n -> {"content", "done"} \cup UsageKinds] : n \in 1..MaxLines}

\* chunk.toString().split(NL).filter(...): the lines of a chunk, when `sent`
\* content fragments came in earlier chunks
Lines(chunk, sent) ==
  [k \in 1..Len(chunk) |->
     [kind |-> chunk[k],
      text |-> IF chunk[k] \in {"content", "contentHead"}
               THEN Fragment(sent + Cardinality({j \in 1..k : chunk[j] \in {"content", "contentHead"}}))
               ELSE ""]]

\* variant: the catch block leaves the line loop
streamLine_breakOnError(line, st) ==
  IF line.kind = "other" THEN st
  ELSE IF line.kind = "done"
       THEN [st EXCEPT !.file = appendToPromptFile(@, << >>, TRUE),
                       !.finals = @ + 1, !.brk = TRUE]
  ELSE IF line.kind \in {"malformed", "contentHead"}
       THEN [st EXCEPT !.errors = @ + 1, !.brk = TRUE]
  ELSE IF line.kind = "content"
       THEN [st EXCEPT !.responseText = @ \o << line.text >>,
                       !.file = appendToPromptFile(@, << line.text >>, FALSE)]
  ELSE IF line.kind \in UsageKinds
       THEN [st EXCEPT !.promptTokens = OrZero(UsageOf(line.kind).prompt_tokens),
                       !.completionTokens = OrZero(UsageOf(line.kind).completion_tokens)]
  ELSE st

\* the body of  for (const line of lines)  in runPrompt; "malformed" is a
\* payload JSON.parse rejects or one without choices, both land in the catch
streamLine(line, st) ==
  IF line.kind = "other" THEN st
  ELSE IF line.kind = "done"
       THEN [st EXCEPT !.file = appendToPromptFile(@, << >>, TRUE),
                       !.finals = @ + 1, !.brk = TRUE]
  ELSE IF line.kind \in {"malformed", "contentHead"}
       THEN [st EXCEPT !.errors = @ + 1]
  ELSE IF line.kind = "content"
       THEN [st EXCEPT !.responseText = @ \o << line.text >>,
                       !.file = appendToPromptFile(@, << line.text >>, FALSE)]
  ELSE IF line.kind \in UsageKinds
       THEN [st EXCEPT !.promptTokens = OrZero(UsageOf(line.kind).prompt_tokens),
                       !.completionTokens = OrZero(UsageOf(line.kind).completion_tokens)]
  ELSE st

RECURSIVE streamLines(_, _)
streamLines(lines, st) ==
  IF lines = << >> \/ st.brk THEN st
  ELSE streamLines(Tail(lines), streamLine(Head(lines), st))

(* received-stream summary: what the server has sent in this exchange,     *)
(* read off the lines in receive order, independent of chunk boundaries:   *)
(* sent       the number of content fragments,                             *)
(* sentinels  the number of sentinel lines,                                *)
(* expected   the content tokens of the lines before the first sentinel,   *)
(* late       a line other than a sentinel came after the first sentinel,  *)
(* bad        a malformed line came before the first sentinel,             *)
(* between    1 after a content line, 2 after a malformed line following   *)
(*            it, 3 after a content line following that,                   *)
(* cut        the last line received is the first part of a line that the  *)
(*            chunk boundary cut                                           *)
NoStream ==
  [sent |-> 0, sentinels |-> 0, expected |-> << >>, late |-> FALSE, bad |-> FALSE, between |-> 0,
   cut |-> FALSE]

ObserveLine(line, r0) ==
  LET sends == line.kind \in {"content", "contentHead"}
      r == [r0 EXCEPT !.sent = IF sends THEN @ + 1 ELSE @,
                      !.cut = line.kind = "contentHead"]
  IN
  IF r.sentinels > 0
  THEN IF line.kind = "done" THEN [r EXCEPT !.sentinels = @ + 1]
       ELSE IF line.kind = "contentTail" THEN r
       ELSE [r EXCEPT !.late = TRUE]
  ELSE IF line.kind = "done" THEN [r EXCEPT !.sentinels = 1]
  ELSE IF line.kind = "contentHead" THEN [r EXCEPT !.expected = @ \o << line.text >>]
  ELSE IF line.kind = "content"
       THEN [r EXCEPT !.expected = @ \o << line.text >>,
                      !.between = IF @ = 0 THEN 1 ELSE IF @ = 2 THEN 3 ELSE @]
  ELSE IF line.kind = "malformed"
       THEN [r EXCEPT !.bad = TRUE, !.between = IF @ = 1 THEN 2 ELSE @]
  ELSE r

RECURSIVE Observe(_, _)
Observe(lines, r) ==
  IF lines = << >> THEN r ELSE Observe(Tail(lines), ObserveLine(Head(lines), r))

(* ------------------------------------------------------ conversation files *)
UnknownModel == "acme/unknown-1"
KnownModel == "openai/gpt-4o"
ModelKinds == {"absent", "empty", "default", "known", "unknown"}
CtxKinds == {"absent", "one", "two"}
RuleKinds == {"rule", "absent", "nobreak"}
BodyKinds == {"fresh", "asked", "placeholder", "partial", "followup"}

ModelPart(k) ==
  CASE k = "absent" -> << >>
    [] k = "empty" -> << HdrModel, NL, NL >>
    [] k = "default" -> << HdrModel, NL, DEFAULT_MODEL, NL, NL >>
    [] k = "known" -> << HdrModel, NL, KnownModel, NL, NL >>
    [] k = "unknown" -> << HdrModel, NL, UnknownModel, NL, NL >>

CtxPart(k) ==
  CASE k = "absent" -> << >>
    [] k = "one" -> << HdrContext, NL, ListMarker, "a.js", NL, NL >>
    [] k = "two" -> << HdrContext, NL, ListMarker, "a.js", NL, ListMarker, "missing.js", NL, NL >>

RulePart(k) ==
  CASE k = "rule" -> << Rule, NL, NL >>
    [] k = "absent" -> << >>
    [] k = "nobreak" -> << Rule, SP, NL, NL >>

BodyPart(k) ==
  CASE k = "fresh" -> << HdrUser, NL >>
    [] k = "asked" -> << HdrUser, NL, "u", NL >>
    [] k = "placeholder" -> << HdrUser, NL, Placeholder >>
    [] k = "partial" -> << HdrUser, NL, "u", NL, NL, HdrLLM, NL >>
    [] k = "followup" -> << HdrUser, NL, "u", NL, NL, HdrLLM, NL, "a", NL, NL,
                            HdrUser, NL, "v", NL >>

\* the file main.js writes, as the user has edited it
PromptFile(g) ==
  << Instructions, NL, NL >> \o ModelPart(g.model) \o CtxPart(g.ctx)
     \o RulePart(g.rule) \o BodyPart(g.body)

Givens == [model : ModelKinds, ctx : CtxKinds, rule : RuleKinds, body : BodyKinds]

(* --------------------------------------------------------- model directory *)
\* prices are counted in millionths of a dollar per token, times in hours
Now == 100
MODELS_CACHE_TTL == 24

\* entries of the directory the models endpoint serves; a price of 0 stands
\* for a price that is absent or zero (both are falsy)
Quote(id, p, c) == [id |-> id, hasPricing |-> TRUE, pricing |-> [prompt |-> p, completion |-> c]]
NoQuote(id) == [id |-> id, hasPricing |-> FALSE, pricing |-> [prompt |-> 0, completion |-> 0]]

Quoted == << Quote(DEFAULT_MODEL, 3, 15), Quote(KnownModel, 5, 15) >>
Unpriced == << Quote(DEFAULT_MODEL, 3, 15), NoQuote(KnownModel) >>
Others == << Quote(DEFAULT_MODEL, 3, 15) >>

\* what the models endpoint can answer: a connection failure, a status that
\* is not ok, a body whose data is a list (possibly empty or missing)
ModelResponses ==
  {[threw |-> TRUE, ok |-> FALSE, data |-> << >>],
   [threw |-> FALSE, ok |-> FALSE, data |-> << >>]} \cup
  {[threw |-> FALSE, ok |-> TRUE, data |-> d] : d \in {<< >>, Quoted, Unpriced, Others}}

\* the cache file models_cache.json: whether it exists, whether JSON.parse
\* accepts it, and what the parsed value holds
CacheFile(exists, parses, isObject, hasArray, ms, hasTime, t) ==
  [exists |-> exists, parses |-> parses, isObject |-> isObject, modelsIsArray |-> hasArray,
   models |-> ms, timestampIsNumber |-> hasTime, timestamp |-> t]

NoCache == CacheFile(FALSE, FALSE, FALSE, FALSE, << >>, FALSE, 0)
ValidCache(ms, t) == CacheFile(TRUE, TRUE, TRUE, TRUE, ms, TRUE, t)

CacheFiles ==
  { NoCache,
    CacheFile(TRUE, FALSE, FALSE, FALSE, << >>, FALSE, 0),
    CacheFile(TRUE, TRUE, FALSE, FALSE, << >>, FALSE, 0),
    CacheFile(TRUE, TRUE, TRUE, FALSE, << >>, TRUE, Now - 1),
    CacheFile(TRUE, TRUE, TRUE, TRUE, << >>, TRUE, Now - 1),
    CacheFile(TRUE, TRUE, TRUE, TRUE, Quoted, FALSE, 0) } \cup
  { ValidCache(Quoted, t) : t \in {Now - 1, Now - MODELS_CACHE_TTL, Now - MODELS_CACHE_TTL - 1} }

\* fetchAndCacheModels: the models endpoint answers resp
fetchAndCacheModels(cache, resp) ==
  IF resp.threw \/ ~resp.ok
  THEN [cache |-> cache, models |-> << >>, fetched |-> TRUE]
  ELSE IF Len(resp.data) > 0
       THEN [cache |-> ValidCache(resp.data, Now), models |-> resp.data, fetched |-> TRUE]
       ELSE [cache |-> cache, models |-> << >>, fetched |-> TRUE]

\* the validation of the parsed cache in getModels
CacheIsValid(cache) ==
  /\ cache.isObject
  /\ cache.modelsIsArray
  /\ Len(cache.models) > 0
  /\ cache.timestampIsNumber

\* variant: a cache that fails validation is left in place
getModels_keepsInvalid(cache, resp) ==
  IF cache.exists
  THEN IF ~cache.parses
       THEN fetchAndCacheModels(NoCache, resp)
       ELSE IF CacheIsValid(cache)
            THEN IF Now - cache.timestamp < MODELS_CACHE_TTL
                 THEN [cache |-> cache, models |-> cache.models, fetched |-> FALSE]
                 ELSE fetchAndCacheModels(cache, resp)
            ELSE fetchAndCacheModels(cache, resp)
  ELSE fetchAndCacheModels(cache, resp)

\* variant: a cache of exactly the validity window is still used
getModels_windowInclusive(cache, resp) ==
  IF cache.exists
  THEN IF ~cache.parses
       THEN fetchAndCacheModels(NoCache, resp)
       ELSE IF CacheIsValid(cache)
            THEN IF Now - cache.timestamp <= MODELS_CACHE_TTL
                 THEN [cache |-> cache, models |-> cache.models, fetched |-> FALSE]
                 ELSE fetchAndCacheModels(cache, resp)
            ELSE fetchAndCacheModels(NoCache, resp)
  ELSE fetchAndCacheModels(cache, resp)

\* getModels: the cache file as it is found, the answer resp of the models
\* endpoint if it is asked; no path of it throws
getModels(cache, resp) ==
  IF cache.exists
  THEN IF ~cache.parses
       THEN fetchAndCacheModels(NoCache, resp)
       ELSE IF CacheIsValid(cache)
            THEN IF Now - cache.timestamp < MODELS_CACHE_TTL
                 THEN [cache |-> cache, models |-> cache.models, fetched |-> FALSE]
                 ELSE fetchAndCacheModels(cache, resp)
            ELSE fetchAndCacheModels(NoCache, resp)
  ELSE fetchAndCacheModels(cache, resp)

\* Array.prototype.find: the first entry with this id, 0 if there is none
FindModel(models, id) ==
  IF \E i \in 1..Len(models) : models[i].id = id
  THEN Min({i \in 1..Len(models) : models[i].id = id})
  ELSE 0

NullPrice == [available |-> FALSE]

\* variant: a model without a quote costs nothing
calculatePrice_zeroWhenUnknown(promptTokens, completionTokens, id, models) ==
  LET i == FindModel(models, id)
      q == IF i = 0 \/ ~models[i].hasPricing THEN [prompt |-> 0, completion |-> 0]
           ELSE models[i].pricing
  IN [available |-> TRUE,
      promptCost |-> OrZero(q.prompt) * promptTokens,
      completionCost |-> OrZero(q.completion) * completionTokens,
      totalCost |-> OrZero(q.prompt) * promptTokens + OrZero(q.completion) * completionTokens,
      promptTokens |-> promptTokens,
      completionTokens |-> completionTokens,
      pricing |-> q]

\* variant: the total leaves out the completion cost
calculatePrice_promptOnlyTotal(promptTokens, completionTokens, id, models) ==
  LET i == FindModel(models, id)
  IN IF i = 0 \/ ~models[i].hasPricing THEN NullPrice
     ELSE [available |-> TRUE,
           promptCost |-> OrZero(models[i].pricing.prompt) * promptTokens,
           completionCost |-> OrZero(models[i].pricing.completion) * completionTokens,
           totalCost |-> OrZero(models[i].pricing.prompt) * promptTokens,
           promptTokens |-> promptTokens,
           completionTokens |-> completionTokens,
           pricing |-> models[i].pricing]

calculatePrice(promptTokens, completionTokens, id, models) ==
  LET i == FindModel(models, id)
  IN IF i = 0 \/ ~models[i].hasPricing THEN NullPrice
     ELSE LET promptCost == OrZero(models[i].pricing.prompt) * promptTokens
              completionCost == OrZero(models[i].pricing.completion) * completionTokens
          IN [available |-> TRUE,
              promptCost |-> promptCost,
              completionCost |-> completionCost,
              totalCost |-> promptCost + completionCost,
              promptTokens |-> promptTokens,
              completionTokens |-> completionTokens,
              pricing |-> models[i].pricing]

(* ------------------------------------------------------------ token counts *)
SystemMessageChars == 445
FileChars == 10

\* the text of SYSTEM_MESSAGE and the text of a context file, each one token
SYSTEM_MESSAGE == "You are a coding assistant."
FileText == "<text of the file>"

\* String.prototype.length of a token and of a text
Chars(tok) ==
  IF tok = Placeholder THEN 61
  ELSE IF tok = SYSTEM_MESSAGE THEN SystemMessageChars
  ELSE IF tok = FileText THEN FileChars
  ELSE Len(tok)

RECURSIVE Length(_)
Length(text) == IF text = << >> THEN 0 ELSE Chars(Head(text)) + Length(Tail(text))

\* Array.prototype.join on texts
RECURSIVE Join(_, _)
Join(items, sep) ==
  IF items = << >> THEN << >>
  ELSE IF Len(items) = 1 THEN items[1]
  ELSE (items[1] \o sep) \o Join(Tail(items), sep)

\* variant: the file contents travel in the message that lists the files
apiMessages_oneContextMessage(ctxFiles, incl, msgs) ==
  << [role |-> "system", content |-> << SYSTEM_MESSAGE >>],
     [role |-> "user",
      content |-> << "Relevant files:", NL >>
                  \o (IF Len(ctxFiles) > 0 THEN Join(ctxFiles, << NL >>) ELSE << "None" >>)
                  \o (IF Len(ctxFiles) > 0 /\ Len(incl) > 0
                      THEN << "File contents:", NL >>
                           \o Join([i \in 1..Len(incl) |->
                                      (<< "/* ~~~ " >> \o incl[i]) \o << " ~~~ */", NL, FileText >>],
                                   << NL, NL >>)
                      ELSE << >>)] >>
  \o msgs

\* the request messages of runPrompt: the system message, the list of
\* relevant files, the file contents if there are any, the conversation
apiMessages(ctxFiles, incl, msgs) ==
  << [role |-> "system", content |-> << SYSTEM_MESSAGE >>],
     [role |-> "user",
      content |-> << "Relevant files:", NL >>
                  \o (IF Len(ctxFiles) > 0 THEN Join(ctxFiles, << NL >>) ELSE << "None" >>)] >>
  \o (IF Len(ctxFiles) > 0 /\ Len(incl) > 0
      THEN << [role |-> "user",
               content |-> << "File contents:", NL >>
                           \o Join([i \in 1..Len(incl) |->
                                      (<< "/* ~~~ " >> \o incl[i]) \o << " ~~~ */", NL, FileText >>],
                                   << NL, NL >>)] >>
      ELSE << >>)
  \o msgs

\* the body of the chat-completions request
requestBody(id, ctxFiles, incl, msgs) ==
  [model |-> id, messages |-> apiMessages(ctxFiles, incl, msgs), stream |-> TRUE]

\* apiMessages.reduce((acc, msg) => acc + msg.content.length / 4, 0), counted
\* in quarters
RECURSIVE Quarters(_)
Quarters(msgs) == IF msgs = << >> THEN 0 ELSE Length(Head(msgs).content) + Quarters(Tail(msgs))

\* variant: Math.floor in place of Math.ceil
Ceil4_floor(quarters) == quarters \div 4

\* Math.ceil of a number of quarters
Ceil4(quarters) == (quarters + 3) \div 4

\* runPrompt after the stream: a counter that is still falsy is estimated
Reconcile(st, msgs) ==
  [promptTokens |-> IF st.promptTokens = 0 THEN Ceil4(Quarters(msgs)) ELSE st.promptTokens,
   completionTokens |-> IF st.completionTokens = 0 THEN Ceil4(Length(st.responseText))
                        ELSE st.completionTokens]

(* ------------------------------------------------------------------ state *)
VARIABLES
  file,          \* text of the _PROMPT.md conversation file
  apiKey,        \* whether the credential file exists
  fsKind,        \* what each context path is on disk
  given,         \* how the initial file was composed
  pc,            \* position of runPrompt
  exitCode,      \* -1 while running, 0 on return, 1 on process.exit(1)
  cause,         \* which failure ended the run
  model, contextFiles, messages,   \* result of parsePromptFile
  included, warnings,              \* result of getFileContents
  responseText,  \* accumulated assistant text
  finalizeCount, \* calls of appendToPromptFile with isFinal in this run
  rx,            \* summary of the lines received in this run
  fileAtStart,   \* the file when this run started
  fileAtStream,  \* the file when the request was issued
  runs,          \* runs started so far
  chunks,        \* chunks delivered so far
  cache,         \* the file models_cache.json
  models,        \* result of getModels in this run
  lookup,        \* the last call of getModels: what it found, whether it fetched
  listing,       \* outcome of the command `gb9k models`
  promptTokens, completionTokens,  \* the token counters of runPrompt
  usage,         \* the last usage payload received in this run
  pricing,       \* result of calculatePrice
  stdout,        \* what the run has written to standard output
  requests       \* chat-completions requests issued in this run

vars == << file, apiKey, fsKind, given, pc, exitCode, cause, model, contextFiles,
           messages, included, warnings, responseText, finalizeCount, rx,
           fileAtStart, fileAtStream, runs, chunks, cache, models, lookup, listing,
           promptTokens, completionTokens, usage, pricing, stdout, requests >>

env == << apiKey, fsKind, given >>
parsed == << model, contextFiles, messages >>
assembled == << included, warnings >>
streamed == << responseText, finalizeCount, rx, chunks >>
directory == << cache, models, lookup, listing >>
counted == << promptTokens, completionTokens, usage, pricing, stdout, requests >>

NoLookup == [found |-> "none", fetched |-> FALSE]

InitWith(gs, keys, kinds, caches) ==
  /\ given \in gs
  /\ apiKey \in keys
  /\ fsKind \in [{"a.js"} -> {"file"}] \cup
                {[p \in {"a.js", "missing.js"} |-> IF p = "a.js" THEN "file" ELSE k] : k \in kinds}
  /\ (given.ctx = "two") = ("missing.js" \in DOMAIN fsKind)
  /\ file = PromptFile(given)
  /\ pc = "start" /\ exitCode = -1 /\ cause = "none"
  /\ model = DEFAULT_MODEL /\ contextFiles = << >> /\ messages = << >>
  /\ included = << >> /\ warnings = << >>
  /\ responseText = << >> /\ finalizeCount = 0 /\ rx = NoStream
  /\ fileAtStart = file /\ fileAtStream = file
  /\ runs = 1 /\ chunks = 0
  /\ cache \in caches
  /\ models = << >> /\ lookup = NoLookup /\ listing = "none"
  /\ promptTokens = 0 /\ completionTokens = 0 /\ usage = "none"
  /\ pricing = NullPrice /\ stdout = << >> /\ requests = 0

\* every composition of the file, every state of the credential and the disk
InitFiles == InitWith(Givens, BOOLEAN, FileKinds, {ValidCache(Quoted, Now - 1)})

\* the files an exchange is run on
Init ==
  InitWith([model : {"known"}, ctx : {"one"}, rule : {"rule", "absent"},
            body : BodyKinds \ {"placeholder"}],
           BOOLEAN, FileKinds, {ValidCache(Quoted, Now - 1)})

\* one conversation file, every state of the model cache
InitModels ==
  InitWith([model : {"known"}, ctx : {"one"}, rule : {"rule"}, body : {"asked"}],
           BOOLEAN, {"file"}, CacheFiles)

\* one conversation file, a fresh cache
InitCuts ==
  InitWith([model : {"known"}, ctx : {"one"}, rule : {"rule"}, body : {"asked"}],
           {TRUE}, {"file"}, {ValidCache(Quoted, Now - 1)})

\* one conversation file, a fresh cache of every directory
InitUsage ==
  InitWith([model : {"known"}, ctx : {"one"}, rule : {"rule"}, body : {"asked"}],
           {TRUE}, {"file"}, {ValidCache(d, Now - 1) : d \in {Quoted, Unpriced, Others}})

(* ---------------------------------------------------------------- actions *)
Exit(why) == pc' = "exited" /\ exitCode' = 1 /\ cause' = why

\* runPrompt: get_api_key, findPromptFile
GetApiKey ==
  /\ pc = "start"
  /\ IF apiKey THEN pc' = "parse" /\ UNCHANGED << exitCode, cause >>
     ELSE Exit("nokey")
  /\ UNCHANGED << file, env, parsed, assembled, streamed, fileAtStart, fileAtStream, runs,
                  directory, counted >>

\* variant: the assistant marker is written before the messages are counted
ParseStep_initializesFirst ==
  /\ pc = "parse"
  /\ LET r == parsePromptFile(file)
     IN IF r.threw THEN Exit("parse") /\ UNCHANGED << file, parsed >>
        ELSE /\ model' = r.model
             /\ contextFiles' = r.contextFiles
             /\ messages' = r.messages
             /\ file' = initializePromptFile(file)
             /\ IF Len(r.messages) = 0 THEN Exit("nomessages")
                ELSE pc' = "init" /\ UNCHANGED << exitCode, cause >>
  /\ UNCHANGED << env, assembled, streamed, fileAtStart, fileAtStream, runs,
                  directory, counted >>

\* runPrompt: parsePromptFile, the check for zero messages
ParseStep ==
  /\ pc = "parse"
  /\ LET r == parsePromptFile(file)
     IN IF r.threw THEN Exit("parse") /\ UNCHANGED parsed
        ELSE /\ model' = r.model
             /\ contextFiles' = r.contextFiles
             /\ messages' = r.messages
             /\ IF Len(r.messages) = 0 THEN Exit("nomessages")
                ELSE pc' = "init" /\ UNCHANGED << exitCode, cause >>
  /\ UNCHANGED << file, env, assembled, streamed, fileAtStart, fileAtStream, runs,
                  directory, counted >>

\* runPrompt: initializePromptFile
Initialize ==
  /\ pc = "init"
  /\ file' = initializePromptFile(file)
  /\ fileAtStream' = file'
  /\ pc' = "context"
  /\ UNCHANGED << env, exitCode, cause, parsed, assembled, streamed, fileAtStart, runs,
                  directory, counted >>

\* runPrompt: the request messages, getFileContents outside any try block
AssembleContext ==
  /\ pc = "context"
  /\ LET r == getFileContents(fsKind, contextFiles)
     IN IF r.threw THEN Exit("context") /\ UNCHANGED assembled
        ELSE /\ included' = r.included
             /\ warnings' = r.warnings
             /\ pc' = "models" /\ UNCHANGED << exitCode, cause >>
  /\ UNCHANGED << file, env, parsed, streamed, fileAtStart, fileAtStream, runs,
                  directory, counted >>

\* what a call of getModels finds in place of the cache
Found(c) ==
  IF ~c.exists THEN "absent"
  ELSE IF ~c.parses THEN "unparsable"
  ELSE IF ~CacheIsValid(c) THEN "invalid"
  ELSE IF Now - c.timestamp < MODELS_CACHE_TTL THEN "fresh"
  ELSE "stale"

\* runPrompt: getModels, for the prices
GetModels ==
  /\ pc = "models"
  /\ \E resp \in ModelResponses :
       LET r == getModels(cache, resp)
       IN /\ cache' = r.cache
          /\ models' = r.models
          /\ lookup' = [found |-> Found(cache), fetched |-> r.fetched]
  /\ pc' = "fetch"
  /\ UNCHANGED << file, env, exitCode, cause, parsed, assembled, streamed, fileAtStart,
                  fileAtStream, runs, listing, counted >>

\* variant: the catch block finalizes the file
Fetch_finalizesOnError ==
  /\ pc = "fetch"
  /\ \E outcome \in {"ok", "http", "connect"} :
       IF outcome = "ok" THEN pc' = "stream" /\ UNCHANGED << file, exitCode, cause >>
       ELSE Exit(outcome) /\ file' = appendToPromptFile(file, << >>, TRUE)
  /\ requests' = requests + 1
  /\ UNCHANGED << env, parsed, assembled, streamed, fileAtStart, fileAtStream, runs,
                  directory, promptTokens, completionTokens, usage, pricing, stdout >>

\* runPrompt: fetch of the chat-completions endpoint and the response.ok test
Fetch ==
  /\ pc = "fetch"
  /\ \E outcome \in {"ok", "http", "connect"} :
       IF outcome = "ok" THEN pc' = "stream" /\ UNCHANGED << exitCode, cause >>
       ELSE Exit(outcome)
  /\ requests' = requests + 1
  /\ UNCHANGED << file, env, parsed, assembled, streamed, fileAtStart, fileAtStream, runs,
                  directory, promptTokens, completionTokens, usage, pricing, stdout >>

\* the last usage payload among the lines of a chunk that come before its
\* first sentinel, u if there is none
LastUsage(lines, u) ==
  LET stop == IF \E k \in 1..Len(lines) : lines[k].kind = "done"
              THEN Min({k \in 1..Len(lines) : lines[k].kind = "done"})
              ELSE Len(lines) + 1
      at == {k \in 1..(stop - 1) : lines[k].kind \in UsageKinds}
  IN IF at = {} THEN u ELSE lines[CHOOSE k \in at : \A j \in at : j <= k].kind

\* runPrompt: one iteration of  for await (const chunk of response.body)
\* on a chunk drawn from chunkSet
Receive(chunkSet) ==
  /\ pc = "stream"
  /\ chunks < MaxChunks
  /\ \E chunk \in {c \in chunkSet : (c[1] = "contentTail") = rx.cut} :
     \E st \in {streamLines(Lines(chunk, rx.sent),
                             [file |-> file, responseText |-> responseText,
                              finals |-> 0, errors |-> 0, brk |-> FALSE,
                              promptTokens |-> promptTokens,
                              completionTokens |-> completionTokens])} :
       LET lines == Lines(chunk, rx.sent)
       IN /\ file' = st.file
          /\ responseText' = st.responseText
          /\ finalizeCount' = finalizeCount + st.finals
          /\ promptTokens' = st.promptTokens
          /\ completionTokens' = st.completionTokens
          /\ rx' = Observe(lines, rx)
          /\ usage' = LastUsage(lines, usage)
  /\ chunks' = chunks + 1
  /\ UNCHANGED << env, pc, exitCode, cause, parsed, assembled, fileAtStart, fileAtStream, runs,
                  directory, pricing, stdout, requests >>

\* a chunk of a stream that reports no usage
ReceiveChunk == Receive(Chunks)

\* a chunk of a stream cut at arbitrary bytes
ReceiveCutChunk == Receive(CutChunks)

\* a chunk of a stream that reports usage
ReceiveUsageChunk == Receive(UsageChunks)

\* variant: the file is finalized on the error path too
TransportError_finalizes ==
  /\ pc = "stream"
  /\ Exit("transport")
  /\ file' = appendToPromptFile(file, << >>, TRUE)
  /\ UNCHANGED << env, parsed, assembled, streamed, fileAtStart, fileAtStream, runs,
                  directory, counted >>

\* runPrompt: the iteration rejects, the catch block exits
TransportError ==
  /\ pc = "stream"
  /\ Exit("transport")
  /\ UNCHANGED << file, env, parsed, assembled, streamed, fileAtStart, fileAtStream, runs,
                  directory, counted >>

\* the header of the usage report
StatsLine == "Usage Statistics:"

\* variant: the cache is stamped again once the prices have been used
StreamEnd_stampsCache ==
  /\ pc = "stream"
  /\ pc' = "returned" /\ exitCode' = 0
  /\ LET n == Reconcile([promptTokens |-> promptTokens, completionTokens |-> completionTokens,
                         responseText |-> responseText],
                        apiMessages(contextFiles, included, messages))
         price == calculatePrice(n.promptTokens, n.completionTokens, model, models)
     IN /\ promptTokens' = n.promptTokens
        /\ completionTokens' = n.completionTokens
        /\ pricing' = price
        /\ stdout' = IF price.available THEN Append(stdout, StatsLine) ELSE stdout
  /\ cache' = IF Len(models) > 0 THEN ValidCache(models, Now) ELSE cache
  /\ UNCHANGED << file, env, cause, parsed, assembled, streamed, fileAtStart, fileAtStream, runs,
                  models, lookup, listing, usage, requests >>

\* runPrompt: the body ends, the counters are reconciled, the cost is
\* computed and printed if there is one, the function returns
StreamEnd ==
  /\ pc = "stream"
  /\ pc' = "returned" /\ exitCode' = 0
  /\ LET n == Reconcile([promptTokens |-> promptTokens, completionTokens |-> completionTokens,
                         responseText |-> responseText],
                        apiMessages(contextFiles, included, messages))
         price == calculatePrice(n.promptTokens, n.completionTokens, model, models)
     IN /\ promptTokens' = n.promptTokens
        /\ completionTokens' = n.completionTokens
        /\ pricing' = price
        /\ stdout' = IF price.available THEN Append(stdout, StatsLine) ELSE stdout
  /\ UNCHANGED << file, env, cause, parsed, assembled, streamed, fileAtStart, fileAtStream, runs,
                  directory, usage, requests >>

\* the command `gb9k models`: listModels, run before the conversation
ListModels ==
  /\ pc = "start"
  /\ listing = "none"
  /\ IF ~apiKey THEN listing' = "nokey" /\ UNCHANGED << cache, lookup >>
     ELSE \E resp \in ModelResponses :
            LET r == getModels(cache, resp)
            IN /\ cache' = r.cache
               /\ lookup' = [found |-> Found(cache), fetched |-> r.fetched]
               /\ listing' = IF Len(r.models) = 0 THEN "nomodels" ELSE "printed"
  /\ UNCHANGED << file, env, pc, exitCode, cause, parsed, assembled, streamed, fileAtStart,
                  fileAtStream, runs, models, counted >>

\* what the user does to the file before executing `gb9k run` again: nothing,
\* text typed below the placeholder, or text typed over the placeholder
Edit(f, how) ==
  CASE how = "none" -> f
    [] how = "type" -> f \o << NL, "v", NL >>
    [] how = "replace" -> IF Len(f) > 0 /\ f[Len(f)] = Placeholder
                          THEN SubSeq(f, 1, Len(f) - 1) \o << "v", NL >>
                          ELSE f

\* after a return the user continues the conversation, after an exit the
\* same file is run again
NextRun ==
  /\ pc \in {"returned", "exited"}
  /\ runs < MaxRuns
  /\ \E how \in (IF pc = "returned" THEN {"none", "type", "replace"} ELSE {"none"}) :
       file' = Edit(file, how)
  /\ fileAtStart' = file' /\ fileAtStream' = file'
  /\ pc' = "start" /\ exitCode' = -1 /\ cause' = "none"
  /\ model' = DEFAULT_MODEL /\ contextFiles' = << >> /\ messages' = << >>
  /\ included' = << >> /\ warnings' = << >>
  /\ responseText' = << >> /\ finalizeCount' = 0 /\ rx' = NoStream
  /\ models' = << >>
  /\ promptTokens' = 0 /\ completionTokens' = 0 /\ usage' = "none"
  /\ pricing' = NullPrice /\ stdout' = << >> /\ requests' = 0
  /\ runs' = runs + 1
  /\ UNCHANGED << env, chunks, cache, lookup, listing >>

Next ==
  \/ GetApiKey \/ ParseStep \/ Initialize \/ AssembleContext \/ GetModels \/ Fetch
  \/ ReceiveChunk \/ TransportError \/ StreamEnd \/ NextRun

Spec == Init /\ [][Next]_vars

\* the run up to the request, on every composition of the file
NextFiles == GetApiKey \/ ParseStep \/ Initialize \/ AssembleContext \/ GetModels

SpecFiles == InitFiles /\ [][NextFiles]_vars

\* the listing command and one exchange, with the model cache in every state
NextModels ==
  \/ ListModels
  \/ GetApiKey \/ ParseStep \/ Initialize \/ AssembleContext \/ GetModels \/ Fetch
  \/ ReceiveChunk \/ TransportError \/ StreamEnd

SpecModels == InitModels /\ [][NextModels]_vars

\* one exchange whose response body is cut into chunks at arbitrary bytes
NextCuts ==
  \/ GetApiKey \/ ParseStep \/ Initialize \/ AssembleContext \/ GetModels \/ Fetch
  \/ ReceiveCutChunk \/ TransportError \/ StreamEnd

SpecCuts == InitCuts /\ [][NextCuts]_vars

\* one exchange whose stream may report usage
NextUsage ==
  \/ GetApiKey \/ ParseStep \/ Initialize \/ AssembleContext \/ GetModels \/ Fetch
  \/ ReceiveUsageChunk \/ TransportError \/ StreamEnd

SpecUsage == InitUsage /\ [][NextUsage]_vars

(* ----------------------------------------------------------------- claims *)
Running == pc \in {"stream", "returned"}

\* C1: the finalization (the append of the new user turn) runs exactly once
\* in an exchange whose stream delivered the sentinel, however many chunks
\* and sentinel lines it held, and not at all in an exchange that ended in
\* a transport error.
C1_FinalizedExactlyOnce ==
  /\ (pc \in {"returned", "exited"} /\ rx.sentinels > 0) => finalizeCount = 1
  /\ (pc = "exited" /\ cause = "transport" /\ rx.sentinels = 0) => finalizeCount = 0

LastTurnHeader(text) ==
  IF TurnStarts(text) = {} THEN "none"
  ELSE text[CHOOSE i \in TurnStarts(text) : \A j \in TurnStarts(text) : j <= i]

EndsWith(text, tail) ==
  /\ Len(text) >= Len(tail)
  /\ SubSeq(text, Len(text) - Len(tail) + 1, Len(text)) = tail

\* C3: between initializePromptFile and the first streamed content, the last
\* turn header of the file is the assistant marker, also for a file that
\* holds earlier LLM turns followed by a new user turn; a file that already
\* ended with the marker is left as it was.
C3_AssistantMarkerIsLast ==
  (pc \in {"context", "models", "fetch"} \/ (pc = "stream" /\ chunks = 0)) =>
     /\ LastTurnHeader(file) = HdrLLM
     /\ EndsWith(fileAtStart, << HdrLLM, NL >>) => file = fileAtStart

\* C4: after an exchange that completed with the sentinel, the second and
\* later ones included, the file ends with exactly one open user turn (the
\* "### User" header with only the placeholder) and all streamed assistant
\* text stands before it.
C4_OneTrailingOpenTurn ==
  (pc = "returned" /\ rx.sentinels > 0 /\ ~rx.late) =>
     file = (fileAtStream \o responseText) \o UserTurnMarker

\* C5: parsePromptFile drops a user turn whose body is only the placeholder
\* comment: no parsed message consists of the placeholder, and a body that
\* holds only such a turn yields zero messages.
C5_PlaceholderTurnDropped ==
  /\ \A i \in 1..Len(messages) : messages[i].content # << Placeholder >>
  /\ (given.body = "placeholder" /\ (pc = "init" \/ cause = "nomessages")) => messages = << >>

StartsWith(text, head) ==
  /\ Len(text) >= Len(head)
  /\ SubSeq(text, 1, Len(head)) = head

\* C6: a transport error before the sentinel, after zero or more appended
\* fragments, ends the run with a non-zero status and leaves the file as it
\* was at the request plus the content appended so far, with no user-turn
\* marker added.
C6_TransportErrorKeepsPartial ==
  (pc = "exited" /\ cause = "transport" /\ rx.sentinels = 0) =>
     /\ exitCode = 1
     /\ file = fileAtStream \o rx.expected
     /\ responseText = rx.expected
     /\ finalizeCount = 0

C6_Witness ==
  /\ pc = "exited" /\ cause = "transport" /\ exitCode = 1
  /\ rx.sentinels = 0 /\ rx.expected = << "c1", "c2" >>
  /\ file = fileAtStream \o << "c1", "c2" >>

\* C7: a malformed data line does not end the stream loop: with malformed
\* lines in the stream, the contents of all valid fragments are in the file
\* in receive order, and once the sentinel arrives the file is finalized
\* right after them.
C7_MalformedLineSkipped ==
  (Running /\ rx.bad) =>
     /\ rx.sentinels = 0 => file = fileAtStream \o rx.expected
     /\ rx.sentinels > 0 =>
          /\ StartsWith(file, (fileAtStream \o rx.expected) \o UserTurnMarker)
          /\ finalizeCount >= 1
     /\ StartsWith(responseText, rx.expected)

C7_Witness ==
  /\ pc = "returned" /\ rx.between = 3 /\ rx.sentinels = 1
  /\ rx.expected = << "c1", "c2" >>
  /\ file = (fileAtStream \o << "c1", "c2" >>) \o UserTurnMarker

\* C8: context assembly does not abort on one bad reference: for the
\* references a.js and missing.js, where missing.js cannot be read or does
\* not exist, the result holds a.js, a warning is written and the run goes
\* on to the request.
C8_AssemblySurvivesBadReference ==
  (/\ contextFiles = << << "a.js" >>, << "missing.js" >> >>
   /\ fsKind["missing.js"] \in {"unreadable", "missing"}
   /\ (pc \in {"models", "fetch"} \/ cause = "context")) =>
     /\ pc \in {"models", "fetch"}
     /\ included = << << "a.js" >> >>
     /\ warnings # << >>

ParseReturned == pc \in {"init", "context", "models", "fetch"} \/ cause \in {"nomessages", "context"}
ParseDone == ParseReturned \/ cause = "parse"

\* C9: parsePromptFile raises the no-conversation error exactly for the
\* files without a rule followed by a line break, and runPrompt then exits
\* with a non-zero status.
C9_NoConversationMarker ==
  ParseDone =>
     /\ (cause = "parse") = (given.rule # "rule")
     /\ cause = "parse" => (pc = "exited" /\ exitCode = 1 /\ file = fileAtStart)

C9_Witness ==
  cause = "parse" /\ given.rule = "nobreak" /\ exitCode = 1

\* C10: the model id parsePromptFile returns is a known model: the id of the
\* Model section when that is a known id, the default when the section is
\* absent, empty or holds an unknown id; none of these raises an error.
C10_ModelIsKnown ==
  /\ ParseReturned =>
       /\ model \in Range(VALID_MODELS)
       /\ given.model = "known" => model = KnownModel
       /\ given.model \in {"absent", "empty", "unknown", "default"} => model = DEFAULT_MODEL
  /\ (ParseDone /\ given.rule = "rule") => ParseReturned

C10_Witness ==
  pc = "init" /\ given.model = "unknown" /\ model = DEFAULT_MODEL

\* C11: when a payload of the stream carried a usage object, the counters
\* used for the cost are the prompt_tokens and completion_tokens of the last
\* such object, whatever their values, 0 included.
C11_UsageUsedVerbatim ==
  (pc = "returned" /\ usage # "none") =>
     /\ promptTokens = UsageOf(usage).prompt_tokens
     /\ completionTokens = UsageOf(usage).completion_tokens

\* C12: when the stream reported no usage, the prompt count is the ceiling
\* of a quarter of the characters of all request messages (the system
\* message, the list of relevant files, the file contents, the
\* conversation) and the completion count is the ceiling of a quarter of
\* the characters of the accumulated response.
C12_EstimateIsCeilingOfQuarter ==
  (pc = "returned" /\ usage = "none") =>
     LET msgs == apiMessages(contextFiles, included, messages)
         total == Quarters(msgs)
         answer == Length(responseText)
     IN /\ msgs[1].role = "system"
        /\ Len(msgs) = 2 + (IF included # << >> THEN 1 ELSE 0) + Len(messages)
        /\ 4 * (promptTokens - 1) < total /\ total <= 4 * promptTokens
        /\ 4 * (completionTokens - 1) < answer /\ answer <= 4 * completionTokens

C12_Witness ==
  /\ pc = "returned" /\ usage = "none"
  /\ Quarters(apiMessages(contextFiles, included, messages)) = 510
  /\ promptTokens = 128
  /\ responseText = << "c1", "c2", "c3" >> /\ completionTokens = 2

\* the quote the directory of this run holds for the selected model
QuoteOf(id) == models[FindModel(models, id)].pricing
HasQuote(id) == FindModel(models, id) # 0 /\ models[FindModel(models, id)].hasPricing

\* C13: for a model with a quote the result of calculatePrice holds the
\* prompt cost (prompt count times prompt price), the completion cost
\* (completion count times completion price), their sum as the total and
\* the counts it was given; counts of 100 and 50 at prices of 0.000005 and
\* 0.000015 give a total of 0.00125 (1250 millionths).
C13_CostIsCountTimesPrice ==
  (pc = "returned" /\ HasQuote(model)) =>
     /\ pricing.available
     /\ pricing.promptCost = promptTokens * QuoteOf(model).prompt
     /\ pricing.completionCost = completionTokens * QuoteOf(model).completion
     /\ pricing.totalCost = pricing.promptCost + pricing.completionCost
     /\ pricing.promptTokens = promptTokens
     /\ pricing.completionTokens = completionTokens
     /\ (/\ promptTokens = 100 /\ completionTokens = 50
         /\ QuoteOf(model) = [prompt |-> 5, completion |-> 15]) => pricing.totalCost = 1250

C13_Witness ==
  /\ pc = "returned" /\ HasQuote(model)
  /\ QuoteOf(model) = [prompt |-> 5, completion |-> 15]
  /\ promptTokens = 100 /\ completionTokens = 50
  /\ pricing.available /\ pricing.totalCost = 1250

\* C14: when the directory holds no entry for the selected model, or an
\* entry without pricing, the cost is the unavailable result and not a cost
\* of 0, no usage report is printed, and the run returns with status 0.
C14_NoQuoteNoCost ==
  (pc = "returned" /\ ~HasQuote(model)) =>
     /\ pricing = NullPrice
     /\ StatsLine \notin Range(stdout)
     /\ exitCode = 0

C14_Witness ==
  /\ pc = "returned" /\ exitCode = 0
  /\ models = Unpriced /\ model = KnownModel
  /\ pricing = NullPrice
  /\ rx.sentinels = 1 /\ responseText = << "c1" >>

\* C15: no step of runPrompt writes or deletes the model cache file; the
\* file is created, replaced or deleted only by the listing command.
C15_CacheReadOnlyInRun ==
  [][cache' # cache => listing' # listing]_vars

\* C15, amended: the model cache file is created, replaced or deleted only
\* inside getModels, which the listing command calls and which runPrompt
\* calls once before it issues the chat-completions request; no step from
\* the request to the end of the run touches it.
C15_CacheSetOnlyByGetModels ==
  [][cache' # cache =>
       \/ listing' # listing
       \/ pc = "models" /\ pc' = "fetch" /\ requests = 0 /\ lookup'.fetched]_vars

C15_Witness ==
  /\ pc = "returned" /\ listing = "none"
  /\ lookup = [found |-> "absent", fetched |-> TRUE]
  /\ cache = ValidCache(Quoted, Now)
  /\ models = Quoted /\ requests = 1

\* C16: when getModels finds a cache file that JSON.parse rejects or that
\* fails the validation, the bad file is gone afterwards (deleted, or
\* replaced by the answer of the models endpoint), the endpoint was asked,
\* and the caller goes on with the list it got, which is empty exactly when
\* the endpoint gave none.
C16_BadCacheDeletedAndRefetched ==
  (pc = "fetch" /\ lookup.found \in {"unparsable", "invalid"}) =>
     /\ lookup.fetched
     /\ exitCode = -1
     /\ \/ cache = NoCache /\ models = << >>
        \/ cache = ValidCache(models, Now) /\ Len(models) > 0

C16_Witness ==
  /\ pc = "fetch" /\ listing = "none"
  /\ lookup = [found |-> "invalid", fetched |-> TRUE]
  /\ cache = NoCache /\ models = << >>

\* C17: a run that ends because the credential is missing, because the file
\* has no conversation marker, or because parsing gave no message, ends with
\* a non-zero status before any effect of the exchange: the conversation
\* file is what it was when the run started, no chat-completions request
\* was issued, the models endpoint was not asked and the cache not touched.
C17_EarlyExitHasNoEffect ==
  (pc = "exited" /\ cause \in {"nokey", "parse", "nomessages"}) =>
     /\ exitCode = 1
     /\ file = fileAtStart
     /\ requests = 0
     /\ models = << >>
     /\ responseText = << >> /\ finalizeCount = 0

C17_Witness ==
  /\ pc = "exited" /\ cause = "nomessages" /\ exitCode = 1
  /\ given.body = "fresh" /\ apiKey
  /\ file = fileAtStart /\ HdrLLM \notin Range(file)
  /\ requests = 0

\* C18: a run returns normally, with status 0, only after an exchange in
\* which the sentinel was received and the file was finalized with the new
\* user turn.
C18_SuccessOnlyAfterSentinel ==
  (pc = "returned" /\ exitCode = 0) =>
     /\ rx.sentinels >= 1
     /\ finalizeCount >= 1

\* C19: every content token taken from the stream is written to standard
\* output as well as appended to the file and to the accumulated text: at
\* every point of the exchange the tokens echoed on standard output are the
\* tokens accumulated so far.
C19_TokensEchoed ==
  Running => SelectSeq(stdout, LAMBDA t : t # StatsLine) = responseText

\* C20: once a sentinel line has been processed nothing received after it,
\* in the same chunk or in a later one, is appended to the file or to the
\* accumulated text, and the user-turn marker stays the end of the file.
C20_NothingAfterSentinel ==
  (Running /\ rx.sentinels >= 1) =>
     /\ responseText = rx.expected
     /\ file = (fileAtStream \o rx.expected) \o UserTurnMarker

\* C21: when the chat-completions endpoint answers with a status that is not
\* a success, runPrompt exits with a non-zero status and the conversation
\* file is what it was before the run: no assistant marker, no assistant
\* content, no user-turn marker.
C21_HttpErrorLeavesFile ==
  (pc = "exited" /\ cause = "http") =>
     /\ exitCode = 1
     /\ file = fileAtStart

\* C21, amended: after a status that is not a success runPrompt exits with a
\* non-zero status, and neither assistant content nor a user-turn marker was
\* added; the file is what it was before the run if it held an assistant
\* header anywhere, and otherwise that content followed by the assistant
\* marker initializePromptFile appended before the request.
C21_HttpErrorAddsOnlyMarker ==
  (pc = "exited" /\ cause = "http") =>
     /\ exitCode = 1
     /\ responseText = << >> /\ finalizeCount = 0
     /\ HdrLLM \in Range(fileAtStart) => file = fileAtStart
     /\ HdrLLM \notin Range(fileAtStart) => file = fileAtStart \o << NL, NL, HdrLLM, NL >>

C21_Witness ==
  /\ pc = "exited" /\ cause = "http" /\ exitCode = 1
  /\ given.body = "asked" /\ runs = 1
  /\ file = fileAtStart \o << NL, NL, HdrLLM, NL >>
  /\ requests = 1

\* the content tokens the server streams
IsFragment(t) == \E i \in 1..(MaxChunks * MaxLines) : t = Fragment(i)

\* C22: after an exchange that completed with the sentinel, parsing the
\* file again gives the messages parsed before the exchange, unchanged, then
\* one assistant message holding the streamed text; the only thing that may
\* follow is the open user turn, and no user message holds streamed text.
C22_ExchangeAddsOneAssistantTurn ==
  (/\ pc = "returned" /\ rx.sentinels = 1 /\ ~rx.late
   /\ responseText # << >>) =>
     LET re == parsePromptFile(file).messages
         n == Len(messages)
     IN /\ Len(re) \in {n + 1, n + 2}
        /\ SubSeq(re, 1, n) = messages
        /\ re[n + 1] = [role |-> "assistant", content |-> trim(responseText)]
        /\ \A i \in 1..Len(re) :
             re[i].role = "user" => \A k \in 1..Len(re[i].content) : ~IsFragment(re[i].content[k])

\* C23: however the response bytes are cut into network chunks, a cut inside
\* an event line included, once every line sent so far has arrived whole the
\* text accumulated and appended to the file is the content of all data
\* lines before the sentinel, in receive order.
C23_AppendsIndependentOfChunking ==
  (Running /\ ~rx.cut /\ ~rx.late) =>
     /\ responseText = rx.expected
     /\ StartsWith(file, fileAtStream \o rx.expected)

\* the k-th header of a conversation body, in file order
NthTurn(text, k) ==
  CHOOSE i \in TurnStarts(text) : Cardinality({j \in TurnStarts(text) : j < i}) = k - 1

\* the turns of a conversation body: for each header, in file order, the
\* role it names and the trimmed text up to the next header or the end
TurnsOf(text) ==
  [k \in 1..Cardinality(TurnStarts(text)) |->
     LET i == NthTurn(text, k)
         stop == IF k = Cardinality(TurnStarts(text)) THEN Len(text) + 1
                 ELSE NthTurn(text, k + 1)
     IN [role |-> IF text[i] = HdrLLM THEN "assistant" ELSE "user",
         content |-> trim(SubSeq(text, i + 2, stop - 1))]]

\* C24: parsePromptFile returns the turns of the conversation body in file
\* order, one message for each turn whose trimmed text is not empty, with
\* the role of its header and the trimmed text as content; the last turn is
\* among them when it is not empty.
C24_MessagesAreTheTurns ==
  ParseReturned =>
     messages = SelectSeq(TurnsOf(ConversationMatch(fileAtStart).text),
                          LAMBDA m : m.content # << >>)

C24_Witness ==
  /\ ParseReturned /\ given.body = "followup" /\ given.rule = "rule"
  /\ messages = << [role |-> "user", content |-> << "u" >>],
                   [role |-> "assistant", content |-> << "a" >>],
                   [role |-> "user", content |-> << "v" >>] >>

\* C25: the call of getModels in a run honours the window of 24 hours: a
\* valid cache younger than 24 hours is returned as it is, without a request
\* and without a write; with no cache, or a valid cache of 24 hours or more,
\* the models endpoint is asked, a non-empty answer becomes the result and
\* the new cache with the time of the call, and after a failed or empty
\* answer the cache file is what it was.
C25_CacheWindow ==
  [][(pc = "models" /\ pc' = "fetch") =>
       LET valid == cache.exists /\ cache.parses /\ cache.isObject /\ cache.modelsIsArray
                    /\ Len(cache.models) > 0 /\ cache.timestampIsNumber
           age == Now - cache.timestamp
       IN /\ (valid /\ age < 24) =>
               /\ models' = cache.models
               /\ ~lookup'.fetched
               /\ cache' = cache
          /\ (~cache.exists \/ (valid /\ age >= 24)) =>
               /\ lookup'.fetched
               /\ \/ Len(models') > 0 /\ cache' = ValidCache(models', Now)
                  \/ models' = << >> /\ cache' = cache]_vars

C25_Witness ==
  /\ pc = "fetch" /\ listing = "none"
  /\ lookup = [found |-> "stale", fetched |-> TRUE]
  /\ cache = ValidCache(Quoted, Now - 24)
  /\ models = << >>

\* the body runPrompt has composed once the context is assembled
Body == requestBody(model, contextFiles, included, messages)

\* C26: the message list of the request body is the system message, then
\* one user message carrying the assembled context, then the parsed history
\* in file order, unmodified; stream is true and model is the resolved id.
C26_SystemContextHistory ==
  pc = "fetch" =>
     /\ Len(Body.messages) = 2 + Len(parsePromptFile(fileAtStart).messages)
     /\ Body.messages[1] = [role |-> "system", content |-> << SYSTEM_MESSAGE >>]
     /\ Body.messages[2].role = "user"
     /\ SubSeq(Body.messages, 3, Len(Body.messages)) = parsePromptFile(fileAtStart).messages
     /\ Body.stream
     /\ Body.model = parsePromptFile(fileAtStart).model

\* C26, amended: the message list of the request body is the system
\* message, then a user message that lists the relevant files (or None),
\* then, when references were given and at least one file was read, a second
\* user message with the file contents, then the parsed history in file
\* order, unmodified; stream is true and model is the resolved id.
C26_SystemFilesContentsHistory ==
  pc = "fetch" =>
     LET k == IF included # << >> THEN 1 ELSE 0
         history == parsePromptFile(fileAtStart).messages
     IN /\ Len(Body.messages) = 2 + k + Len(history)
        /\ Body.messages[1] = [role |-> "system", content |-> << SYSTEM_MESSAGE >>]
        /\ Body.messages[2].role = "user"
        /\ Body.messages[2].content[1] = "Relevant files:"
        /\ (contextFiles = << >>) = (Body.messages[2].content = << "Relevant files:", NL, "None" >>)
        /\ "File contents:" \notin Range(Body.messages[2].content)
        /\ k = 1 => /\ Body.messages[3].role = "user"
                    /\ Body.messages[3].content[1] = "File contents:"
                    /\ FileText \in Range(Body.messages[3].content)
        /\ SubSeq(Body.messages, 3 + k, Len(Body.messages)) = history
        /\ Body.stream
        /\ Body.model = parsePromptFile(fileAtStart).model

C26_Witness ==
  /\ pc = "fetch" /\ given.ctx = "two" /\ given.body = "followup"
  /\ included = << << "a.js" >> >>
  /\ Len(Body.messages) = 6
  /\ Body.messages[3].content =
       << "File contents:", NL, "/* ~~~ ", "a.js", " ~~~ */", NL, FileText >>
  /\ Body.messages[6] = [role |-> "user", content |-> << "v" >>]
====
